---- MODULE Spec2Model ----
(***************************************************************************)
(* A model of plunger's log writer (package pkg, log.go): the MetaKeys     *)
(* registry, LogWriter.Write, LogWriter.GetEntries with its filter, and    *)
(* the persistence of the registry in the meta_keys table.                 *)
(*                                                                         *)
(* The SQLite store is modelled by its three tables.  A statement the      *)
(* store may refuse for reasons outside the program (I/O error, lock) is   *)
(* an input of the action that issues it.                                  *)
(***************************************************************************)
EXTENDS Integers, Sequences, FiniteSets, TLC

VARIABLES
    log_entries,        \* table log_entries: sequence of header rows, in insertion order
    log_entries_meta,   \* table log_entries_meta: sequence of attribute rows
    meta_keys,          \* table meta_keys: set of rows [id, key]
    Keys,               \* MetaKeys.Keys: name -> ID of the registered names
    namesById,          \* MetaKeys.namesById: ID -> name
    maxID,              \* MetaKeys.maxID
    written,            \* history: what each Write call that returned success was given
    issued,             \* history: ID -> the name it was first issued to
    ret,                \* what the last call returned and did
    writes              \* goroutine -> the call of Write it is in, statement by statement

vars == <<log_entries, log_entries_meta, meta_keys, Keys, namesById, maxID, written, issued,
          ret, writes>>

(***************************************************************************)
(* Bounds of the model.                                                    *)
(***************************************************************************)
MaxEvents == 2      \* Write calls that reach the header insert
MaxKeyID == 3       \* Add and AddWithID are called while maxID is at most this
MaxRows == 3        \* rows of meta_keys that loadMetaKeys reads from a foreign table

(***************************************************************************)
(* Go values as json.Unmarshal produces them in an interface{}: nil,       *)
(* string, float64, bool, and map[string]interface{} (one level of         *)
(* nesting is modelled).  A float64 is held in tenths, so that 42 is 420   *)
(* and 1.5 is 15.                                                          *)
(***************************************************************************)
NoMembers == [k \in {} |-> 0]

Scalar(kind, s, n) == [kind |-> kind, s |-> s, n |-> n]

GoNil == [kind |-> "nil", s |-> "", n |-> 0, m |-> NoMembers]
GoString(s) == [kind |-> "string", s |-> s, n |-> 0, m |-> NoMembers]
GoFloat(tenths) == [kind |-> "float64", s |-> "", n |-> tenths, m |-> NoMembers]
GoBool(b) == [kind |-> "bool", s |-> IF b THEN "true" ELSE "false", n |-> 0, m |-> NoMembers]
GoBytes(s) == [kind |-> "bytes", s |-> s, n |-> 0, m |-> NoMembers]
GoMap(members) == [kind |-> "map", s |-> "", n |-> 0, m |-> members]

\* the names that occur in the model, in the byte order json.Marshal sorts map keys by
SortedNames == <<"baz", "foo", "missing", "test">>
Names == {SortedNames[i] : i \in DOMAIN SortedNames}

(***************************************************************************)
(* encoding/json on attribute values.  A JSON text is a sequence of        *)
(* tokens.                                                                 *)
(***************************************************************************)
Tok(t, s, n) == [t |-> t, s |-> s, n |-> n]

ScalarToken(kind, s, n) ==
    CASE kind = "string" -> Tok("str", s, 0)
      [] kind = "float64" -> Tok("num", "", n)
      [] kind = "bool" -> Tok(s, "", 0)
      [] OTHER -> Tok("null", "", 0)

RECURSIVE MarshalMembers(_, _)
MarshalMembers(members, i) ==
    IF i > Len(SortedNames) THEN <<>>
    ELSE LET k == SortedNames[i]
         IN  (IF k \in DOMAIN members
              THEN <<Tok("key", k, 0), ScalarToken(members[k].kind, members[k].s, members[k].n)>>
              ELSE <<>>) \o MarshalMembers(members, i + 1)

\* json.Marshal(v): no value json.Unmarshal produced makes it fail
Marshal(v) ==
    IF v.kind = "map"
    THEN <<Tok("{", "", 0)>> \o MarshalMembers(v.m, 1) \o <<Tok("}", "", 0)>>
    ELSE <<ScalarToken(v.kind, v.s, v.n)>>

TokenScalar(tok) ==
    CASE tok.t = "str" -> Scalar("string", tok.s, 0)
      [] tok.t = "num" -> Scalar("float64", "", tok.n)
      [] tok.t \in {"true", "false"} -> Scalar("bool", tok.t, 0)
      [] OTHER -> Scalar("nil", "", 0)

IsScalarToken(tok) == tok.t \in {"str", "num", "true", "false", "null"}

\* the members between the braces: key, value, key, value, ...
WellFormedMembers(toks) ==
    /\ Len(toks) % 2 = 0
    /\ \A i \in 1..Len(toks) :
         IF i % 2 = 1 THEN toks[i].t = "key" ELSE IsScalarToken(toks[i])

ParseMembers(toks) ==
    LET keys == {toks[i].s : i \in {j \in 1..Len(toks) : j % 2 = 1}}
        \* a repeated key: the last one wins
        last(k) == CHOOSE i \in 1..Len(toks) :
                      /\ i % 2 = 1 /\ toks[i].s = k
                      /\ \A j \in 1..Len(toks) : (j % 2 = 1 /\ toks[j].s = k) => j <= i
    IN  [k \in keys |-> TokenScalar(toks[last(k) + 1])]

\* json.Unmarshal(text, &v) for v an interface{}
Unmarshal(toks) ==
    IF Len(toks) = 1 /\ IsScalarToken(toks[1])
    THEN LET sc == TokenScalar(toks[1])
         IN  [err |-> FALSE, v |-> [kind |-> sc.kind, s |-> sc.s, n |-> sc.n, m |-> NoMembers]]
    ELSE IF /\ Len(toks) >= 2
            /\ toks[1].t = "{"
            /\ toks[Len(toks)].t = "}"
            /\ WellFormedMembers(SubSeq(toks, 2, Len(toks) - 1))
    THEN [err |-> FALSE, v |-> GoMap(ParseMembers(SubSeq(toks, 2, Len(toks) - 1)))]
    ELSE [err |-> TRUE, v |-> GoNil]

(***************************************************************************)
(* database/sql's nullable column values.                                  *)
(***************************************************************************)
NullString(s, valid) == [String |-> s, Valid |-> valid]
NullInt(i, valid) == [Int |-> i, Valid |-> valid]
NullFloat64(f, valid) == [Float64 |-> f, Valid |-> valid]
NullBlob(toks, valid) == [Bytes |-> toks, Valid |-> valid]

LogEntryTypeReal == 0
LogEntryTypeText == 1
LogEntryTypeBlob == 2
LogEntryTypeJSON == 3

\* LogEntryType.String
TypeString(t) ==
    CASE t = LogEntryTypeReal -> "real"
      [] t = LogEntryTypeText -> "text"
      [] t = LogEntryTypeBlob -> "blob"
      [] t = LogEntryTypeJSON -> "json"
      [] OTHER -> "unknown"

\* the numeric types ToLogEntryType names (lines 164-187)
NumericKinds ==
    {"float32", "float64", "int", "int8", "int16", "int32", "int64",
     "uint", "uint8", "uint16", "uint32", "uint64"}

\* a number of one of the numeric types, and a slice: values a caller can put
\* into a filter; json.Unmarshal produces float64 only
GoNumber(kind, tenths) == [kind |-> kind, s |-> "", n |-> tenths, m |-> NoMembers]
GoSlice == [kind |-> "slice", s |-> "", n |-> 0, m |-> NoMembers]

\* ToLogEntryType with bool and nil classified as Text
ToLogEntryTypeScalarsText(v) ==
    CASE v.kind \in NumericKinds -> LogEntryTypeReal
      [] v.kind \in {"string", "bool", "nil"} -> LogEntryTypeText
      [] v.kind = "bytes" -> LogEntryTypeBlob
      [] OTHER -> LogEntryTypeJSON

\* ToLogEntryType
ToLogEntryType(v) ==
    CASE v.kind \in NumericKinds -> LogEntryTypeReal
      [] v.kind = "string" -> LogEntryTypeText
      [] v.kind = "bytes" -> LogEntryTypeBlob
      [] OTHER -> LogEntryTypeJSON

(***************************************************************************)
(* MetaKeys                                                                *)
(***************************************************************************)
\* a nil *MetaKey
NilKey == [ok |-> FALSE, Name |-> "", ID |-> 0]

\* MetaKeys.Get: (key, ok)
Get(keys, name) ==
    IF name \in DOMAIN keys
    THEN [ok |-> TRUE, Name |-> name, ID |-> keys[name]]
    ELSE NilKey

\* MetaKeys.GetByID
GetByID(keys, byId, id) ==
    IF id \in DOMAIN byId THEN Get(keys, byId[id]) ELSE NilKey

Extend(f, k, v) == [x \in (DOMAIN f) \cup {k} |-> IF x = k THEN v ELSE f[x]]

\* Add without the lookup of lines 81-84: a new key on every call
AddAlways(r, name) ==
    [Keys |-> Extend(r.Keys, name, r.maxID),
     namesById |-> Extend(r.namesById, r.maxID, name),
     maxID |-> r.maxID + 1,
     Name |-> name, ID |-> r.maxID]

\* Add without the increment of line 90
AddNoAdvance(r, name) ==
    IF name \in DOMAIN r.Keys
    THEN [Keys |-> r.Keys, namesById |-> r.namesById, maxID |-> r.maxID,
          Name |-> name, ID |-> r.Keys[name]]
    ELSE [Keys |-> Extend(r.Keys, name, r.maxID),
          namesById |-> Extend(r.namesById, r.maxID, name),
          maxID |-> r.maxID,
          Name |-> name, ID |-> r.maxID]

\* MetaKeys.Add on a registry [Keys, namesById, maxID]: the registry afterwards and the key
Add(r, name) ==
    IF Get(r.Keys, name).ok
    THEN [Keys |-> r.Keys, namesById |-> r.namesById, maxID |-> r.maxID,
          Name |-> name, ID |-> r.Keys[name]]
    ELSE [Keys |-> Extend(r.Keys, name, r.maxID),
          namesById |-> Extend(r.namesById, r.maxID, name),
          maxID |-> r.maxID + 1,
          Name |-> name, ID |-> r.maxID]

\* AddWithID whose return of line 109 also advances maxID
AddWithIDAdvances(r, name, id) ==
    IF id \in DOMAIN r.namesById /\ r.namesById[id] # name
    THEN [Keys |-> r.Keys, namesById |-> r.namesById, maxID |-> r.maxID, err |-> TRUE,
          key |-> NilKey]
    ELSE IF name \in DOMAIN r.Keys
    THEN [Keys |-> r.Keys, namesById |-> r.namesById,
          maxID |-> IF r.Keys[name] = id THEN r.maxID + 1 ELSE r.maxID,
          err |-> r.Keys[name] # id, key |-> [ok |-> TRUE, Name |-> name, ID |-> r.Keys[name]]]
    ELSE [Keys |-> Extend(r.Keys, name, id),
          namesById |-> Extend(r.namesById, id, name),
          maxID |-> (IF id > r.maxID THEN id ELSE r.maxID) + 1,
          err |-> FALSE, key |-> [ok |-> TRUE, Name |-> name, ID |-> id]]

\* AddWithID without the check of lines 97-102: an id bound to another name is rebound
AddWithIDNoIdCheck(r, name, id) ==
    IF name \in DOMAIN r.Keys
    THEN [Keys |-> r.Keys, namesById |-> r.namesById, maxID |-> r.maxID,
          err |-> r.Keys[name] # id, key |-> [ok |-> TRUE, Name |-> name, ID |-> r.Keys[name]]]
    ELSE [Keys |-> Extend(r.Keys, name, id),
          namesById |-> Extend(r.namesById, id, name),
          maxID |-> (IF id > r.maxID THEN id ELSE r.maxID) + 1,
          err |-> FALSE, key |-> [ok |-> TRUE, Name |-> name, ID |-> id]]

\* AddWithID without the check of lines 104-110: a registered name is bound again
AddWithIDNoNameCheck(r, name, id) ==
    IF id \in DOMAIN r.namesById /\ r.namesById[id] # name
    THEN [Keys |-> r.Keys, namesById |-> r.namesById, maxID |-> r.maxID, err |-> TRUE,
          key |-> NilKey]
    ELSE [Keys |-> Extend(r.Keys, name, id),
          namesById |-> Extend(r.namesById, id, name),
          maxID |-> (IF id > r.maxID THEN id ELSE r.maxID) + 1,
          err |-> FALSE, key |-> [ok |-> TRUE, Name |-> name, ID |-> id]]

\* AddWithID without lines 116-118: maxID is advanced by one, never raised to id
AddWithIDNoRaise(r, name, id) ==
    IF id \in DOMAIN r.namesById /\ r.namesById[id] # name
    THEN [Keys |-> r.Keys, namesById |-> r.namesById, maxID |-> r.maxID, err |-> TRUE,
          key |-> NilKey]
    ELSE IF name \in DOMAIN r.Keys
    THEN [Keys |-> r.Keys, namesById |-> r.namesById, maxID |-> r.maxID,
          err |-> r.Keys[name] # id, key |-> [ok |-> TRUE, Name |-> name, ID |-> r.Keys[name]]]
    ELSE [Keys |-> Extend(r.Keys, name, id),
          namesById |-> Extend(r.namesById, id, name),
          maxID |-> r.maxID + 1,
          err |-> FALSE, key |-> [ok |-> TRUE, Name |-> name, ID |-> id]]

\* MetaKeys.AddWithID: the registry afterwards and whether an error is returned
AddWithID(r, name, id) ==
    IF id \in DOMAIN r.namesById /\ r.namesById[id] # name
    THEN [Keys |-> r.Keys, namesById |-> r.namesById, maxID |-> r.maxID, err |-> TRUE,
          key |-> NilKey]
    ELSE IF Get(r.Keys, name).ok
    THEN [Keys |-> r.Keys, namesById |-> r.namesById, maxID |-> r.maxID,
          err |-> r.Keys[name] # id, key |-> Get(r.Keys, name)]
    ELSE [Keys |-> Extend(r.Keys, name, id),
          namesById |-> Extend(r.namesById, id, name),
          maxID |-> (IF id > r.maxID THEN id ELSE r.maxID) + 1,
          err |-> FALSE, key |-> [ok |-> TRUE, Name |-> name, ID |-> id]]

\* NewMetaKeys
NewMetaKeys == [Keys |-> [k \in {} |-> 0], namesById |-> [i \in {} |-> ""], maxID |-> 0]

TheRegistry == [Keys |-> Keys, namesById |-> namesById, maxID |-> maxID]

(***************************************************************************)
(* The payload of Write: a byte string.  It is modelled by what            *)
(* json.Unmarshal into a map[string]interface{} makes of it: a syntax      *)
(* error ("malformed"), a JSON value that is no object ("nonobject": a     *)
(* number, a string, an array), the JSON text null, or an object with its  *)
(* fields.  len is len(p).                                                 *)
(***************************************************************************)
Payload(json, fields, len) == [json |-> json, fields |-> fields, len |-> len]

NoFields == [k \in {} |-> GoNil]

\* json.Unmarshal(p, &log): null leaves log a nil map and returns no error
UnmarshalLog(p) ==
    CASE p.json = "object" -> [err |-> FALSE, log |-> p.fields]
      [] p.json = "null" -> [err |-> FALSE, log |-> NoFields]
      [] OTHER -> [err |-> TRUE, log |-> NoFields]

\* log[k]: nil for a key the map does not hold
Index(log, k) == IF k \in DOMAIN log THEN log[k] ELSE GoNil

(***************************************************************************)
(* Timestamps.  A time is a day and a time of day.  go-sqlite3 binds a     *)
(* time.Time as text in the layout "2006-01-02 15:04:05.999999999-07:00";  *)
(* Apply formats From and To with time.RFC3339,                            *)
(* "2006-01-02T15:04:05Z07:00".  A formatted time is the sequence          *)
(* <<day, separator byte, time of day>>: 32 is the space, 84 the T.        *)
(* SQLite compares two texts byte by byte.                                 *)
(***************************************************************************)
Time(day, tod) == [day |-> day, tod |-> tod]
ZeroTime == Time(0, 0)
IsZero(t) == t = ZeroTime

FormatDriver(t) == <<t.day, 32, t.tod>>
FormatRFC3339(t) == <<t.day, 84, t.tod>>
ParseDriver(text) == Time(text[1], text[3])

\* memcmp order of two texts
TextLess(a, b) ==
    \E i \in 1..(Len(b)) :
        /\ \A j \in 1..(i - 1) : j <= Len(a) /\ a[j] = b[j]
        /\ (i > Len(a) \/ a[i] < b[i])
TextLE(a, b) == a = b \/ TextLess(a, b)

(***************************************************************************)
(* LogWriter.Write                                                         *)
(***************************************************************************)
\* what the store does to a statement: fail.at names the statement that fails
\* ("begin", "header", "exec", "commit" or "none"), fail.i the attribute insert
NoFailure == [at |-> "none", i |-> 0]

\* HeaderFails for a column level that accepts NULL
HeaderFailsNullable(log, fail) ==
    \/ fail.at = "header"
    \/ Index(log, "level").kind \notin {"string", "nil"}
    \/ Index(log, "session").kind \notin {"string", "nil"}

\* the header row inserted at lines 218-227; level is NOT NULL.  The level and
\* the session of every payload of the model are strings or absent.
HeaderFails(log, fail) ==
    \/ fail.at = "header"
    \/ Index(log, "level").kind # "string"
    \/ Index(log, "session").kind \notin {"string", "nil"}

HeaderRow(id, log, now) ==
    [id |-> id,
     date |-> FormatDriver(now),
     level |-> Index(log, "level").s,
     session |-> IF Index(log, "session").kind = "nil"
                 THEN NullString("", FALSE)
                 ELSE NullString(Index(log, "session").s, TRUE)]

\* MetaRow that sets name also for a registered name
MetaRowAlwaysNamed(id, logEntryID, keys, k, v) ==
    LET metaKey == Get(keys, k)
        typeValue == CASE v.kind = "float64" -> LogEntryTypeReal
                       [] v.kind = "bytes" -> LogEntryTypeBlob
                       [] v.kind = "string" -> LogEntryTypeText
                       [] OTHER -> LogEntryTypeJSON
    IN  [id |-> id,
         log_entry_id |-> logEntryID,
         type |-> typeValue,
         name |-> NullString(k, TRUE),
         meta_key_id |-> IF metaKey.ok THEN NullInt(metaKey.ID, TRUE)
                         ELSE NullInt(0, FALSE),
         int_value |-> NullInt(0, FALSE),
         real_value |-> IF v.kind = "float64"
                        THEN NullFloat64(v.n, TRUE) ELSE NullFloat64(0, FALSE),
         text_value |-> IF v.kind = "string"
                        THEN NullString(v.s, TRUE) ELSE NullString("", FALSE),
         blob_value |-> CASE v.kind = "bytes" -> NullBlob(<<Tok("raw", v.s, 0)>>, TRUE)
                          [] v.kind \in {"float64", "string"} -> NullBlob(<<>>, FALSE)
                          [] OTHER -> NullBlob(Marshal(v), TRUE)]

\* MetaRow that leaves blob_value NULL for a value of the default case
MetaRowWithoutJSON(id, logEntryID, keys, k, v) ==
    LET metaKey == Get(keys, k)
        typeValue == CASE v.kind = "float64" -> LogEntryTypeReal
                       [] v.kind = "bytes" -> LogEntryTypeBlob
                       [] v.kind = "string" -> LogEntryTypeText
                       [] OTHER -> LogEntryTypeJSON
    IN  [id |-> id,
         log_entry_id |-> logEntryID,
         type |-> typeValue,
         name |-> IF metaKey.ok THEN NullString("", FALSE) ELSE NullString(k, TRUE),
         meta_key_id |-> IF metaKey.ok THEN NullInt(metaKey.ID, TRUE)
                         ELSE NullInt(0, FALSE),
         int_value |-> NullInt(0, FALSE),
         real_value |-> IF v.kind = "float64"
                        THEN NullFloat64(v.n, TRUE) ELSE NullFloat64(0, FALSE),
         text_value |-> IF v.kind = "string"
                        THEN NullString(v.s, TRUE) ELSE NullString("", FALSE),
         blob_value |-> CASE v.kind = "bytes" -> NullBlob(<<Tok("raw", v.s, 0)>>, TRUE)
                          [] OTHER -> NullBlob(<<>>, FALSE)]

\* MetaRow with logEntryID as line 218 leaves it, the id of the header row not
\* scanned into it
MetaRowUnscannedID(id, logEntryID, keys, k, v) ==
    LET metaKey == Get(keys, k)
        typeValue == CASE v.kind = "float64" -> LogEntryTypeReal
                       [] v.kind = "bytes" -> LogEntryTypeBlob
                       [] v.kind = "string" -> LogEntryTypeText
                       [] OTHER -> LogEntryTypeJSON
    IN  [id |-> id,
         log_entry_id |-> 0,
         type |-> typeValue,
         name |-> IF metaKey.ok THEN NullString("", FALSE) ELSE NullString(k, TRUE),
         meta_key_id |-> IF metaKey.ok THEN NullInt(metaKey.ID, TRUE) ELSE NullInt(0, FALSE),
         int_value |-> NullInt(0, FALSE),
         real_value |-> IF v.kind = "float64"
                        THEN NullFloat64(v.n, TRUE) ELSE NullFloat64(0, FALSE),
         text_value |-> IF v.kind = "string"
                        THEN NullString(v.s, TRUE) ELSE NullString("", FALSE),
         blob_value |-> CASE v.kind = "bytes" -> NullBlob(<<Tok("raw", v.s, 0)>>, TRUE)
                          [] v.kind \in {"float64", "string"} -> NullBlob(<<>>, FALSE)
                          [] OTHER -> NullBlob(Marshal(v), TRUE)]

\* the row built for one field at lines 235-270
MetaRow(id, logEntryID, keys, k, v) ==
    LET metaKey == Get(keys, k)
        typeValue == CASE v.kind = "float64" -> LogEntryTypeReal
                       [] v.kind = "bytes" -> LogEntryTypeBlob
                       [] v.kind = "string" -> LogEntryTypeText
                       [] OTHER -> LogEntryTypeJSON
    IN  [id |-> id,
         log_entry_id |-> logEntryID,
         type |-> typeValue,
         name |-> IF metaKey.ok THEN NullString("", FALSE) ELSE NullString(k, TRUE),
         meta_key_id |-> IF metaKey.ok THEN NullInt(metaKey.ID, TRUE)
                         ELSE NullInt(0, FALSE),
         int_value |-> NullInt(0, FALSE),
         real_value |-> IF v.kind = "float64"
                        THEN NullFloat64(v.n, TRUE) ELSE NullFloat64(0, FALSE),
         text_value |-> IF v.kind = "string"
                        THEN NullString(v.s, TRUE) ELSE NullString("", FALSE),
         blob_value |-> CASE v.kind = "bytes" -> NullBlob(<<Tok("raw", v.s, 0)>>, TRUE)
                          [] v.kind \in {"float64", "string"} -> NullBlob(<<>>, FALSE)
                          [] OTHER -> NullBlob(Marshal(v), TRUE)]

\* AUTOINCREMENT: no row is ever deleted, so the next id is the row count plus one
NextID(table) == Len(table) + 1

\* the fields Write turns into attribute rows
MetaFields(log) == (DOMAIN log) \ {"level", "session"}

\* the orders in which `for k, v := range log` may visit the fields
Orders(log) ==
    {o \in [1..Cardinality(MetaFields(log)) -> MetaFields(log)] :
        \A i, j \in DOMAIN o : i # j => o[i] # o[j]}

\* The body of Write after Beginx succeeded (lines 217-277), on the
\* transaction's view tx of the two tables.  n and reterr are the values of the
\* return statement reached; err is the variable err of line 205, the one the
\* deferred function reads: every later error is declared in an inner scope
\* (lines 225, 253, 272), so it stays nil.
WriteBody(tx, keys, log, len, now, fail, order) ==
    IF HeaderFails(log, fail)
    THEN [n |-> 0, reterr |-> TRUE, err |-> FALSE, tx |-> tx, id |-> 0]
    ELSE LET logEntryID == NextID(tx.log_entries)
             entries == Append(tx.log_entries, HeaderRow(logEntryID, log, now))
             failed == fail.at = "exec" /\ fail.i \in 1..Len(order)
             done == IF failed THEN fail.i - 1 ELSE Len(order)
             rows == [i \in 1..done |->
                        MetaRow(NextID(tx.log_entries_meta) + i - 1, logEntryID, keys,
                                order[i], log[order[i]])]
         IN  [n |-> IF failed THEN 0 ELSE len,
              reterr |-> failed,
              err |-> FALSE,
              tx |-> [log_entries |-> entries,
                      log_entries_meta |-> tx.log_entries_meta \o rows],
              id |-> logEntryID]

\* Deferred with the deferred call registered on the success path only: a return
\* with an error leaves the transaction as it is
DeferredOnSuccessOnly(db, body, fail) ==
    IF body.reterr
    THEN [db |-> db, end |-> <<>>]
    ELSE IF fail.at = "commit"
    THEN [db |-> db, end |-> <<[op |-> "commit", err |-> TRUE]>>]
    ELSE [db |-> body.tx, end |-> <<[op |-> "commit", err |-> FALSE]>>]

\* The deferred function (lines 209-215): Rollback when err is set, Commit
\* otherwise.  A Commit the store refuses stores nothing.  What it assigns to err
\* is not a result of Write, whose results are unnamed.
Deferred(db, body, fail) ==
    IF body.err
    THEN [db |-> db, end |-> <<[op |-> "rollback", err |-> FALSE]>>]
    ELSE IF fail.at = "commit"
    THEN [db |-> db, end |-> <<[op |-> "commit", err |-> TRUE]>>]
    ELSE [db |-> body.tx, end |-> <<[op |-> "commit", err |-> FALSE]>>]

\* WriteRegistry whose line 261 calls Add in the place of Get
RECURSIVE WriteRegistryInterning(_, _, _)
WriteRegistryInterning(r, log, i) ==
    IF i > Len(SortedNames) THEN r
    ELSE IF SortedNames[i] \in MetaFields(log)
    THEN WriteRegistryInterning(
             [Keys |-> Extend(r.Keys, SortedNames[i],
                              IF SortedNames[i] \in DOMAIN r.Keys
                              THEN r.Keys[SortedNames[i]] ELSE r.maxID),
              namesById |-> IF SortedNames[i] \in DOMAIN r.Keys THEN r.namesById
                            ELSE Extend(r.namesById, r.maxID, SortedNames[i]),
              maxID |-> IF SortedNames[i] \in DOMAIN r.Keys THEN r.maxID ELSE r.maxID + 1],
             log, i + 1)
    ELSE WriteRegistryInterning(r, log, i + 1)

\* the registry after Write went through the fields of log from the i-th name
\* on: its only use of l.schema is the Get of line 261
WriteRegistry(r, log, i) == r

\* Write(p): the results (n, err), the tables afterwards, the calls made on the
\* transaction, and the id of the header row if one was committed
Write(db, keys, p, now, fail, order) ==
    LET u == UnmarshalLog(p)
        early == [n |-> 0, err |-> TRUE, db |-> db, tx |-> <<>>, id |-> 0]
    IN  IF u.err THEN early
        ELSE IF fail.at = "begin" THEN early
        ELSE LET body == WriteBody(db, keys, u.log, p.len, now, fail, order)
                 d == Deferred(db, body, fail)
             IN  [n |-> body.n,
                  err |-> body.reterr,
                  db |-> d.db,
                  tx |-> <<[op |-> "begin", err |-> FALSE]>> \o d.end,
                  id |-> IF d.db = db THEN 0 ELSE body.id]

(***************************************************************************)
(* GetEntriesFilter                                                        *)
(***************************************************************************)
\* NewGetEntriesFilter(): the zero filter.  nil marks the nil pointer a caller may pass.
NewGetEntriesFilter ==
    [nil |-> FALSE, Level |-> "", Session |-> "", From |-> ZeroTime, To |-> ZeroTime,
     SelectedMetaKeys |-> <<>>, MetaFilters |-> NoFields]

NilFilter == [NewGetEntriesFilter EXCEPT !.nil = TRUE]

WithLevel(f, level) == [f EXCEPT !.Level = level]
WithSession(f, session) == [f EXCEPT !.Session = session]
WithFrom(f, from) == [f EXCEPT !.From = from]
WithTo(f, to) == [f EXCEPT !.To = to]
WithSelectedMetaKeys(f, keys) == [f EXCEPT !.SelectedMetaKeys = @ \o keys]
WithMetaFilters(f, filters) ==
    [f EXCEPT !.MetaFilters =
        [k \in (DOMAIN @) \cup (DOMAIN filters) |->
            IF k \in DOMAIN filters THEN filters[k] ELSE @[k]]]

\* one condition of a WHERE clause: the column as written in the SQL, the
\* comparison, and the bound argument
Cond(col, op, arg) == [col |-> col, op |-> op, arg |-> arg]

RECURSIVE MetaFilterConds(_, _, _)
MetaFilterConds(filters, keys, i) ==
    IF i > Len(SortedNames) THEN <<>>
    ELSE LET k == SortedNames[i]
             v_ == Get(keys, k)
             fieldName == "lem." \o TypeString(ToLogEntryType(filters[k])) \o "_value"
         IN  (IF k \notin DOMAIN filters THEN <<>>
              ELSE IF ~v_.ok
              THEN <<Cond("mk.name", "=", k), Cond(fieldName, "=", filters[k])>>
              ELSE <<Cond("mk.meta_key_id", "=", v_.ID), Cond(fieldName, "=", filters[k])>>)
             \o MetaFilterConds(filters, keys, i + 1)

\* GetEntriesFilter.Apply: the conditions it adds to the query it is given
Apply(gef, keys) ==
    LET stringKeys == SelectSeq(gef.SelectedMetaKeys, LAMBDA k : ~Get(keys, k).ok)
        registered == SelectSeq(gef.SelectedMetaKeys, LAMBDA k : Get(keys, k).ok)
        intKeys == [i \in 1..Len(registered) |-> Get(keys, registered[i]).ID]
    IN  (IF gef.Level # "" THEN <<Cond("level", "=", gef.Level)>> ELSE <<>>)
        \o (IF gef.Session # "" THEN <<Cond("session", "=", gef.Session)>> ELSE <<>>)
        \o (IF ~IsZero(gef.From)
            THEN <<Cond("date", ">=", FormatRFC3339(gef.From))>> ELSE <<>>)
        \o (IF ~IsZero(gef.To)
            THEN <<Cond("date", "<=", FormatRFC3339(gef.To))>> ELSE <<>>)
        \o (IF Len(stringKeys) > 0 THEN <<Cond("mk.name", "IN", stringKeys)>> ELSE <<>>)
        \o (IF Len(intKeys) > 0 THEN <<Cond("mk.meta_key_id", "IN", intKeys)>> ELSE <<>>)
        \o MetaFilterConds(gef.MetaFilters, keys, 1)

(***************************************************************************)
(* LogWriter.GetEntries                                                    *)
(***************************************************************************)
\* the columns of log_entries (Init's DDL), the only table the first query names
EntryColumns == {"id", "date", "level", "session"}

\* the columns of log_entries_meta (Init's DDL, lines 538-549)
MetaColumns ==
    {"id", "log_entry_id", "type", "meta_key_id", "name",
     "int_value", "real_value", "text_value", "blob_value"}

\* one condition on one header row; a comparison with NULL selects nothing
Holds(row, c) ==
    CASE c.col = "level" -> row.level = c.arg
      [] c.col = "session" -> row.session.Valid /\ row.session.String = c.arg
      [] c.col = "date" /\ c.op = ">=" -> TextLE(c.arg, row.date)
      [] c.col = "date" /\ c.op = "<=" -> TextLE(row.date, c.arg)
      [] OTHER -> FALSE

\* SELECT * FROM log_entries WHERE ... ORDER BY id ASC (lines 447-455): a column
\* the FROM clause does not provide makes the statement fail ("no such column").
\* The table is held in id order.
SelectEntries(table, conds) ==
    IF \E i \in DOMAIN conds : conds[i].col \notin EntryColumns
    THEN [err |-> TRUE, rows |-> <<>>]
    ELSE [err |-> FALSE,
          rows |-> SelectSeq(table, LAMBDA row : \A i \in DOMAIN conds : Holds(row, conds[i]))]

\* rows.StructScan(entry) (line 461): LogEntry.Session is a string, and
\* database/sql refuses to convert NULL to a string
ScanFails(row) == ~row.session.Valid

\* lem.*, mk.key AS meta_key, meta_keys left-joined on mk.id = lem.meta_key_id
MetaKeyOf(lem, table) ==
    IF lem.meta_key_id.Valid /\ \E mk \in table : mk.id = lem.meta_key_id.Int
    THEN NullString((CHOOSE mk \in table : mk.id = lem.meta_key_id.Int).key, TRUE)
    ELSE NullString("", FALSE)

\* Value that converts the real column to an integer
ValueTruncating(lem) ==
    CASE lem.type = LogEntryTypeReal ->
            IF ~lem.real_value.Valid THEN [err |-> TRUE, v |-> GoNil]
            ELSE [err |-> FALSE, v |-> GoFloat((lem.real_value.Float64 \div 10) * 10)]
      [] lem.type = LogEntryTypeText ->
            IF ~lem.text_value.Valid THEN [err |-> TRUE, v |-> GoNil]
            ELSE [err |-> FALSE, v |-> GoString(lem.text_value.String)]
      [] lem.type = LogEntryTypeJSON ->
            IF ~lem.blob_value.Valid THEN [err |-> TRUE, v |-> GoNil]
            ELSE Unmarshal(lem.blob_value.Bytes)
      [] lem.type = LogEntryTypeBlob ->
            IF ~lem.blob_value.Valid THEN [err |-> TRUE, v |-> GoNil]
            ELSE [err |-> FALSE,
                  v |-> GoBytes(IF Len(lem.blob_value.Bytes) = 1
                                THEN lem.blob_value.Bytes[1].s ELSE "")]
      [] OTHER -> [err |-> TRUE, v |-> GoNil]

\* Value that returns (nil, nil) where Value returns an error
ValueNilOnError(lem) ==
    CASE lem.type = LogEntryTypeReal /\ lem.real_value.Valid ->
            [err |-> FALSE, v |-> GoFloat(lem.real_value.Float64)]
      [] lem.type = LogEntryTypeText /\ lem.text_value.Valid ->
            [err |-> FALSE, v |-> GoString(lem.text_value.String)]
      [] lem.type = LogEntryTypeJSON /\ lem.blob_value.Valid ->
            [err |-> FALSE, v |-> Unmarshal(lem.blob_value.Bytes).v]
      [] lem.type = LogEntryTypeBlob /\ lem.blob_value.Valid ->
            [err |-> FALSE,
             v |-> GoBytes(IF Len(lem.blob_value.Bytes) = 1
                           THEN lem.blob_value.Bytes[1].s ELSE "")]
      [] OTHER -> [err |-> FALSE, v |-> GoNil]

\* LogEntryMeta.Value: (value, error)
Value(lem) ==
    CASE lem.type = LogEntryTypeReal ->
            IF ~lem.real_value.Valid THEN [err |-> TRUE, v |-> GoNil]
            ELSE [err |-> FALSE, v |-> GoFloat(lem.real_value.Float64)]
      [] lem.type = LogEntryTypeText ->
            IF ~lem.text_value.Valid THEN [err |-> TRUE, v |-> GoNil]
            ELSE [err |-> FALSE, v |-> GoString(lem.text_value.String)]
      [] lem.type = LogEntryTypeJSON ->
            IF ~lem.blob_value.Valid THEN [err |-> TRUE, v |-> GoNil]
            ELSE Unmarshal(lem.blob_value.Bytes)
      [] lem.type = LogEntryTypeBlob ->
            IF ~lem.blob_value.Valid THEN [err |-> TRUE, v |-> GoNil]
            ELSE [err |-> FALSE,
                  v |-> GoBytes(IF Len(lem.blob_value.Bytes) = 1
                                THEN lem.blob_value.Bytes[1].s ELSE "")]
      [] OTHER -> [err |-> TRUE, v |-> GoNil]

\* lines 499-509: the row is skipped when its value is nil or no name resolves
Skipped(lem, table) ==
    \/ Value(lem).v = GoNil
    \/ ~lem.name.Valid /\ ~MetaKeyOf(lem, table).Valid

ResolvedName(lem, table) ==
    IF lem.name.Valid THEN lem.name.String ELSE MetaKeyOf(lem, table).String

\* entry.Meta after the loop of lines 482-511 over the rows of one entry: a
\* later row for the same name overwrites an earlier one
MetaOf(id, lems, table) ==
    LET mine == SelectSeq(lems, LAMBDA lem : lem.log_entry_id = id /\ ~Skipped(lem, table))
        names == {ResolvedName(mine[i], table) : i \in DOMAIN mine}
        last(k) == CHOOSE i \in DOMAIN mine :
                      /\ ResolvedName(mine[i], table) = k
                      /\ \A j \in DOMAIN mine : ResolvedName(mine[j], table) = k => j <= i
    IN  [k \in names |-> Value(mine[last(k)]).v]

\* SortByID without the sort: the slice as the map range filled it
SortByIDOmitted(s) == s

\* sort.Slice(ret, ret[i].ID < ret[j].ID)
RECURSIVE SortByID(_)
SortByID(s) ==
    IF Len(s) <= 1 THEN s
    ELSE LET i == CHOOSE i \in DOMAIN s : \A j \in DOMAIN s : s[i].ID <= s[j].ID
         IN  <<s[i]>> \o SortByID(SubSeq(s, 1, i - 1) \o SubSeq(s, i + 1, Len(s)))

\* `for _, entry := range entries`: the entries of the map in the order iter,
\* a sequence of ids, visits them
MapRange(entries, iter) ==
    LET visited == SelectSeq(iter, LAMBDA id : id \in DOMAIN entries)
    IN  [i \in 1..Len(visited) |-> entries[visited[i]]]

\* GetEntries(filter): (entries, error).  iter is the order in which the map
\* entries is ranged over.
GetEntries(db, keys, filterArg, iter) ==
    LET filter == IF filterArg.nil THEN NewGetEntriesFilter ELSE filterArg
        q == SelectEntries(db.log_entries, Apply(filter, keys))
        ids == {q.rows[i].id : i \in DOMAIN q.rows}
        lems == SelectSeq(db.log_entries_meta, LAMBDA lem : lem.log_entry_id \in ids)
        entries == [id \in ids |->
                       LET row == CHOOSE r \in {q.rows[i] : i \in DOMAIN q.rows} : r.id = id
                       IN  [ID |-> row.id, Date |-> ParseDriver(row.date),
                            Level |-> row.level, Session |-> row.session.String,
                            Meta |-> MetaOf(id, lems, db.meta_keys),
                            \* line 492: the map is made when the first row of
                            \* the entry is met, skipped or not
                            MetaIsNil |-> \A i \in DOMAIN lems : lems[i].log_entry_id # id]]
        failed == [err |-> TRUE, entries |-> <<>>]
    IN  IF q.err THEN failed
        ELSE IF \E i \in DOMAIN q.rows : ScanFails(q.rows[i]) THEN failed
        ELSE IF \E i \in DOMAIN lems : Value(lems[i]).err THEN failed
        ELSE [err |-> FALSE, entries |-> SortByID(MapRange(entries, iter))]

(***************************************************************************)
(* The registry in the store: saveMetaKeys and loadMetaKeys                *)
(***************************************************************************)
\* Replace as INSERT OR IGNORE: a row in conflict with a stored one is dropped
ReplaceIgnored(table, row) ==
    IF \E mk \in table : mk.id = row.id \/ mk.key = row.key THEN table ELSE table \cup {row}

\* Replace on a table without the unique index on key
ReplaceById(table, row) ==
    {mk \in table : mk.id # row.id} \cup {row}

\* INSERT OR REPLACE of one row: a row with the same id (primary key) or the
\* same key (unique index) is deleted first
Replace(table, row) ==
    {mk \in table : mk.id # row.id /\ mk.key # row.key} \cup {row}

RECURSIVE ReplaceAll(_, _)
ReplaceAll(table, rows) ==
    IF rows = <<>> THEN table ELSE ReplaceAll(Replace(table, Head(rows)), Tail(rows))

\* saveMetaKeys that stores nothing
saveMetaKeysOmitted(table, keys, order) == table

\* saveMetaKeys: one INSERT OR REPLACE of every key, in the order order
saveMetaKeys(table, keys, order) ==
    ReplaceAll(table, [i \in DOMAIN order |-> [id |-> keys[order[i]], key |-> order[i]]])

\* the orders in which SELECT * FROM meta_keys, which has no ORDER BY, may
\* return the rows
RowOrders(table) ==
    {o \in [1..Cardinality(table) -> table] : \A i, j \in DOMAIN o : i # j => o[i] # o[j]}

\* LoadRows that skips a row AddWithID refuses and goes on
RECURSIVE LoadRowsSkipping(_, _)
LoadRowsSkipping(r, rows) ==
    IF rows = <<>> THEN [Keys |-> r.Keys, namesById |-> r.namesById, maxID |-> r.maxID,
                         err |-> FALSE, key |-> NilKey]
    ELSE LoadRowsSkipping(AddWithID(r, Head(rows).key, Head(rows).id), Tail(rows))

\* loadMetaKeys: a new MetaKeys, then AddWithID of every row until one fails
RECURSIVE LoadRows(_, _)
LoadRows(r, rows) ==
    IF rows = <<>> THEN [Keys |-> r.Keys, namesById |-> r.namesById, maxID |-> r.maxID,
                         err |-> FALSE, key |-> NilKey]
    ELSE LET a == AddWithID(r, Head(rows).key, Head(rows).id)
         IN  IF a.err THEN a ELSE LoadRows(a, Tail(rows))

loadMetaKeys(rows) == LoadRows(NewMetaKeys, rows)

(***************************************************************************)
(* The inputs the actions draw from.                                       *)
(***************************************************************************)
Fields(level, session, attrs) ==
    [k \in (DOMAIN attrs) \cup {x \in {"level"} : level # ""}
                          \cup {x \in {"session"} : session # ""} |->
        CASE k = "level" -> GoString(level)
          [] k = "session" -> GoString(session)
          [] OTHER -> attrs[k]]

Nested == GoMap([k \in {"foo", "baz"} |->
                    IF k = "foo" THEN Scalar("string", "bar", 0) ELSE Scalar("float64", "", 420)])

Attrs1(k, v) == [x \in {k} |-> v]
Attrs2(k1, v1, k2, v2) == [x \in {k1, k2} |-> IF x = k1 THEN v1 ELSE v2]

Payloads ==
    { Payload("malformed", NoFields, 7),
      Payload("nonobject", NoFields, 2),
      Payload("null", NoFields, 4),
      Payload("object", Fields("INFO", "A", NoFields), 31),
      Payload("object", Fields("DEBUG", "A", Attrs2("foo", GoString("bar"), "baz", GoFloat(420))), 56),
      Payload("object", Fields("DEBUG", "B", Attrs2("foo", GoString("bar"), "test", Nested)), 80),
      Payload("object", Fields("INFO", "", Attrs1("foo", GoString("bar"))), 30),
      Payload("object", Fields("INFO", "B", Attrs1("test", GoNil)), 43),
      Payload("object", Fields("", "A", Attrs1("baz", GoFloat(15))), 27) }

NoPayload == Payload("none", NoFields, 0)

\* one event for each kind of value json.Unmarshal produces: a number with and
\* without a fraction, a string, the booleans, null, an empty and a filled object
ValuePayloads ==
    { Payload("object", Fields("INFO", "A", Attrs1("baz", v)), 40) :
        v \in {GoFloat(15), GoFloat(420), GoString("bar"), GoBool(TRUE), GoBool(FALSE),
               GoNil, GoMap(NoMembers), Nested} }

\* the payloads that are objects with a level: the events of the query scenarios
Events == {p \in Payloads : p.json = "object" /\ "level" \in DOMAIN p.fields}

Times == {Time(1, 0), Time(1, 1), Time(2, 0)}

Failures ==
    { NoFailure,
      [at |-> "begin", i |-> 0], [at |-> "header", i |-> 0],
      [at |-> "exec", i |-> 1], [at |-> "exec", i |-> 2],
      [at |-> "commit", i |-> 0] }

Filters ==
    { NilFilter,
      NewGetEntriesFilter,
      WithLevel(NewGetEntriesFilter, "DEBUG"),
      WithSession(NewGetEntriesFilter, "A"),
      WithSession(WithLevel(NewGetEntriesFilter, "DEBUG"), "B"),
      WithMetaFilters(NewGetEntriesFilter, Attrs1("foo", GoString("bar"))),
      WithMetaFilters(NewGetEntriesFilter,
                      Attrs2("foo", GoString("bar"), "baz", GoFloat(420))),
      WithMetaFilters(NewGetEntriesFilter, Attrs1("missing", GoString("bar"))),
      WithSelectedMetaKeys(NewGetEntriesFilter, <<"foo">>),
      WithSelectedMetaKeys(NewGetEntriesFilter, <<"foo", "test">>) }

\* value filters with an expected value of every kind
KindFilters ==
    { WithMetaFilters(NewGetEntriesFilter, Attrs1("foo", v)) :
        v \in {GoFloat(420), GoNumber("int", 420), GoString("bar"), GoBytes("raw"),
               GoBool(TRUE), Nested} }

\* attribute rows of the first event that Write did not make: a value column
\* that is NULL for the row's type, a type that is none of the four, and a
\* row as Write makes it
ForeignRows ==
    LET good == MetaRow(0, 1, NewMetaKeys.Keys, "missing", GoString("bar"))
    IN  { good,
          [good EXCEPT !.text_value = NullString("", FALSE)],
          [good EXCEPT !.type = LogEntryTypeReal],
          [good EXCEPT !.type = LogEntryTypeJSON],
          [good EXCEPT !.type = LogEntryTypeBlob],
          [good EXCEPT !.type = 7] }

ForeignRowSeqs == {<<>>} \cup {<<r>> : r \in ForeignRows}

DateFilters ==
    { NewGetEntriesFilter,
      WithFrom(NewGetEntriesFilter, Time(1, 0)),
      WithFrom(NewGetEntriesFilter, Time(1, 1)),
      WithTo(NewGetEntriesFilter, Time(1, 0)),
      WithTo(NewGetEntriesFilter, Time(1, 1)),
      WithTo(WithFrom(NewGetEntriesFilter, Time(1, 1)), Time(2, 0)) }

\* the events of the date scenarios: every one has a session
DateEvents == {p \in Events : "session" \in DOMAIN p.fields}

\* the names Add is called with
AddNames == {"foo"}

\* the names and the ids the registry's methods are called with on their own
RegNames == {"foo", "baz"}
RegIDs == {0, 2}

\* the sequences of rows of a table meta_keys that has no constraint
RowSeqs ==
    UNION {[1..len -> [id : RegIDs, key : RegNames]] : len \in 0..MaxRows}

Permutations_(S) ==
    {o \in [1..Cardinality(S) -> S] : \A i, j \in 1..Cardinality(S) : i # j => o[i] # o[j]}

(***************************************************************************)
(* The state machine: one writer on one store.                             *)
(***************************************************************************)
Result(op, p, filter, n, err, entries, tx) ==
    [op |-> op, p |-> p, filter |-> filter, n |-> n, err |-> err,
     entries |-> entries, tx |-> tx, name |-> "", id |-> 0, ok |-> FALSE, key |-> NilKey,
     rows |-> <<>>]

\* the result of a method of MetaKeys called with name and id: the key returned
\* (key.ok: not nil), the bool or the error returned, and for Add and AddWithID
\* whether the name was found registered (ok)
KeyResult(op, name, id, key, ok, err) ==
    [Result(op, NoPayload, NilFilter, 0, err, <<>>, <<>>)
        EXCEPT !.name = name, !.id = id, !.key = key, !.ok = ok]

\* the history of issued ids after the keys of the registry r were issued
Issue(h, r) ==
    [id \in (DOMAIN h) \cup (DOMAIN r.namesById) |->
        IF id \in DOMAIN h THEN h[id] ELSE r.namesById[id]]

\* the goroutines that call Write on the one LogWriter
Writers == {1, 2}

\* a goroutine that is not in a call of Write
NoWrite ==
    [pc |-> "idle", p |-> NoPayload, order |-> <<>>, fail |-> NoFailure,
     header |-> <<>>, rows |-> <<>>, overlapped |-> FALSE]

\* NewLogWriter on an empty database, after Init created the tables
Init ==
    /\ log_entries = <<>>
    /\ log_entries_meta = <<>>
    /\ meta_keys = {}
    /\ Keys = NewMetaKeys.Keys
    /\ namesById = NewMetaKeys.namesById
    /\ maxID = NewMetaKeys.maxID
    /\ written = [id \in {} |-> 0]
    /\ issued = [id \in {} |-> ""]
    /\ ret = Result("NewLogWriter", NoPayload, NilFilter, 0, FALSE, <<>>, <<>>)
    /\ writes = [w \in Writers |-> NoWrite]

\* whether every name of the event that the registry holds is in meta_keys
NamesSaved(log) ==
    \A k \in MetaFields(log) \cap DOMAIN Keys : [id |-> Keys[k], key |-> k] \in meta_keys

\* Write(p) at the time now; the store refuses the statement fail names
DoWrite(payloads, times, failures) ==
    /\ Len(log_entries) < MaxEvents
    /\ \E p \in payloads, now \in times, fail \in failures :
         \E order \in Orders(UnmarshalLog(p).log) :
           LET w == Write([log_entries |-> log_entries,
                           log_entries_meta |-> log_entries_meta],
                          Keys, p, now, fail, order)
           IN  /\ log_entries' = w.db.log_entries
               /\ log_entries_meta' = w.db.log_entries_meta
               /\ written' = IF w.id = 0 THEN written
                             ELSE Extend(written, w.id,
                                         [log |-> UnmarshalLog(p).log, err |-> w.err,
                                          saved |-> NamesSaved(UnmarshalLog(p).log)])
               /\ ret' = Result("Write", p, NilFilter, w.n, w.err, <<>>, w.tx)
               /\ LET r == WriteRegistry(TheRegistry, UnmarshalLog(p).log, 1)
                  IN  /\ Keys' = r.Keys
                      /\ namesById' = r.namesById
                      /\ maxID' = r.maxID
    /\ UNCHANGED <<meta_keys, issued>>
    /\ UNCHANGED writes

\* DoGetEntries with a GetEntries that registers a name
DoGetEntriesInterning(filters) ==
    /\ \E filter \in filters, iter \in Permutations_(1..MaxEvents) :
         LET g == GetEntries([log_entries |-> log_entries,
                              log_entries_meta |-> log_entries_meta,
                              meta_keys |-> meta_keys],
                             Keys, filter, iter)
         IN  ret' = Result("GetEntries", NoPayload, filter, 0, g.err, g.entries, <<>>)
    /\ Keys' = Add(TheRegistry, "missing").Keys
    /\ namesById' = Add(TheRegistry, "missing").namesById
    /\ maxID' = Add(TheRegistry, "missing").maxID
    /\ UNCHANGED <<log_entries, log_entries_meta, meta_keys, written, issued>>
    /\ UNCHANGED writes

\* GetEntries(filter) on a database whose table log_entries_meta holds, after
\* the rows of this writer, rows it did not make: they are an input
DoGetEntriesForeign(filters, rowSeqs) ==
    /\ \E filter \in filters, rows \in rowSeqs, iter \in Permutations_(1..MaxEvents) :
         LET g == GetEntries([log_entries |-> log_entries,
                              log_entries_meta |-> log_entries_meta \o rows,
                              meta_keys |-> meta_keys],
                             Keys, filter, iter)
         IN  ret' = [Result("GetEntries", NoPayload, filter, 0, g.err, g.entries, <<>>)
                       EXCEPT !.rows = rows]
    /\ UNCHANGED <<log_entries, log_entries_meta, meta_keys, Keys, namesById, maxID,
                   written, issued>>
    /\ UNCHANGED writes

DoGetEntries(filters) ==
    /\ \E filter \in filters, iter \in Permutations_(1..MaxEvents) :
         LET g == GetEntries([log_entries |-> log_entries,
                              log_entries_meta |-> log_entries_meta,
                              meta_keys |-> meta_keys],
                             Keys, filter, iter)
         IN  ret' = Result("GetEntries", NoPayload, filter, 0, g.err, g.entries, <<>>)
    /\ UNCHANGED <<log_entries, log_entries_meta, meta_keys, Keys, namesById, maxID,
                   written, issued>>
    /\ UNCHANGED writes

\* MetaKeys.Add(name)
DoAdd(names) ==
    /\ maxID <= MaxKeyID
    /\ \E name \in names :
         /\ LET a == Add(TheRegistry, name)
            IN  /\ Keys' = a.Keys
                /\ namesById' = a.namesById
                /\ maxID' = a.maxID
                /\ issued' = Issue(issued, a)
                /\ ret' = KeyResult("Add", name, 0, Get(a.Keys, a.Name),
                                    Get(Keys, name).ok, FALSE)
    /\ UNCHANGED <<log_entries, log_entries_meta, meta_keys, written>>
    /\ UNCHANGED writes

\* MetaKeys.AddWithID(name, id)
DoAddWithID(names, ids) ==
    /\ maxID <= MaxKeyID
    /\ \E name \in names, id \in ids :
         /\ LET a == AddWithID(TheRegistry, name, id)
            IN  /\ Keys' = a.Keys
                /\ namesById' = a.namesById
                /\ maxID' = a.maxID
                /\ issued' = Issue(issued, a)
                /\ ret' = KeyResult("AddWithID", name, id, a.key, Get(Keys, name).ok, a.err)
    /\ UNCHANGED <<log_entries, log_entries_meta, meta_keys, written>>
    /\ UNCHANGED writes

\* MetaKeys.Get(name)
DoGet(names) ==
    /\ \E name \in names :
         ret' = KeyResult("Get", name, 0, Get(Keys, name), Get(Keys, name).ok, FALSE)
    /\ UNCHANGED <<log_entries, log_entries_meta, meta_keys, Keys, namesById, maxID,
                   written, issued>>
    /\ UNCHANGED writes

\* MetaKeys.GetByID(id)
DoGetByID(ids) ==
    /\ \E id \in ids :
         ret' = KeyResult("GetByID", "", id, GetByID(Keys, namesById, id),
                          GetByID(Keys, namesById, id).ok, FALSE)
    /\ UNCHANGED <<log_entries, log_entries_meta, meta_keys, Keys, namesById, maxID,
                   written, issued>>
    /\ UNCHANGED writes

\* saveSchema
DoSaveSchema ==
    /\ \E order \in Permutations_(DOMAIN Keys) :
         meta_keys' = saveMetaKeys(meta_keys, Keys, order)
    \* n, rows: the rows of meta_keys the statement replaced
    /\ ret' = [Result("saveSchema", NoPayload, NilFilter,
                      Cardinality(meta_keys \ meta_keys'), FALSE, <<>>, <<>>)
                  EXCEPT !.rows = CHOOSE o \in RowOrders(meta_keys \ meta_keys') : TRUE]
    /\ UNCHANGED <<log_entries, log_entries_meta, Keys, namesById, maxID, written, issued>>
    /\ UNCHANGED writes

\* Init on the existing database: the tables exist, loadSchema reloads the registry
DoInit ==
    /\ \E rows \in RowOrders(meta_keys) :
         LET r == loadMetaKeys(rows)
         IN  /\ Keys' = r.Keys
             /\ namesById' = r.namesById
             /\ maxID' = r.maxID
             /\ issued' = Issue(issued, r)
             /\ ret' = Result("Init", NoPayload, NilFilter, 0, r.err, <<>>, <<>>)
    /\ UNCHANGED <<log_entries, log_entries_meta, meta_keys, written>>
    /\ UNCHANGED writes

\* NewLogWriter(db) on the database in use: a writer with a new registry, which
\* Init has not loaded
DoNewLogWriter ==
    /\ Keys' = NewMetaKeys.Keys
    /\ namesById' = NewMetaKeys.namesById
    /\ maxID' = NewMetaKeys.maxID
    /\ ret' = Result("NewLogWriter", NoPayload, NilFilter, 0, FALSE, <<>>, <<>>)
    /\ UNCHANGED <<log_entries, log_entries_meta, meta_keys, written, issued>>
    /\ UNCHANGED writes

\* loadMetaKeys on a database whose table meta_keys was not filled by this
\* writer: the rows the query returns are an input
DoLoadMetaKeys(rowSeqs) ==
    /\ \E rows \in rowSeqs :
         LET r == loadMetaKeys(rows)
         IN  /\ Keys' = r.Keys
             /\ namesById' = r.namesById
             /\ maxID' = r.maxID
             /\ issued' = Issue(issued, r)
             /\ ret' = [Result("loadMetaKeys", NoPayload, NilFilter, 0, r.err, <<>>, <<>>)
                           EXCEPT !.rows = rows]
    /\ UNCHANGED <<log_entries, log_entries_meta, meta_keys, written>>
    /\ UNCHANGED writes

\* The writer under every payload and every failure of the store, read back
\* without a filter.
Next ==
    \/ DoWrite(Payloads, {Time(1, 0)}, Failures)
    \/ DoGetEntries({NilFilter})
    \/ DoAdd(AddNames)
    \/ DoSaveSchema
    \/ DoInit

Spec == Init /\ [][Next]_vars

\* The writer on a store that refuses nothing, read back under every filter on
\* level, session and attributes.
NextQuery ==
    \/ DoWrite(Events, {Time(1, 0)}, {NoFailure})
    \/ DoGetEntries(Filters)
    \/ DoAdd(AddNames)
    \/ DoSaveSchema
    \/ DoInit

SpecQuery == Init /\ [][NextQuery]_vars

\* Events written at different times, read back under the filters on the date.
NextDates ==
    \/ DoWrite(DateEvents, Times, {NoFailure})
    \/ DoGetEntries(DateFilters)

SpecDates == Init /\ [][NextDates]_vars

\* The registry on its own: its four methods, saved to and reloaded from the store.
NextRegistry ==
    \/ DoAdd(RegNames)
    \/ DoAddWithID(RegNames, RegIDs)
    \/ DoGet(RegNames)
    \/ DoGetByID(RegIDs)
    \/ DoSaveSchema
    \/ DoInit

SpecRegistry == Init /\ [][NextRegistry]_vars

\* Events of every kind of value, written with their name registered or not.
NextValues ==
    \/ DoWrite(ValuePayloads, {Time(1, 0)}, {NoFailure})
    \/ DoGetEntries({NilFilter})
    \/ DoAdd({"baz"})
    \/ DoSaveSchema

SpecValues == Init /\ [][NextValues]_vars

(***************************************************************************)
(* Write, statement by statement, called by several goroutines             *)
(***************************************************************************)
\* Busy for a store that lets two transactions write at once
BusyNever(ws, w) == FALSE

\* whether the store refuses a write of the goroutine w: SQLite lets one
\* transaction write at a time, from its first INSERT to its Commit or Rollback
Busy(ws, w) == \E o \in (DOMAIN ws) \ {w} : ws[o].pc = "loop"

\* lines 199-208: Unmarshal and Beginx.  The call overlaps every call that has
\* begun and not returned.
WBegin(w, payloads, failures) ==
    /\ writes[w].pc = "idle"
    /\ Len(log_entries) + Cardinality({o \in Writers : writes[o].pc # "idle"}) < MaxEvents
    /\ \E p \in payloads, fail \in failures :
         \E order \in Orders(UnmarshalLog(p).log) :
           IF UnmarshalLog(p).err \/ fail.at = "begin"
           THEN /\ ret' = Result("Write", p, NilFilter, 0, TRUE, <<>>, <<>>)
                /\ UNCHANGED writes
           ELSE /\ writes' = [o \in Writers |->
                                IF o = w
                                THEN [pc |-> "begun", p |-> p, order |-> order, fail |-> fail,
                                      header |-> <<>>, rows |-> <<>>,
                                      overlapped |-> \E x \in Writers : writes[x].pc # "idle"]
                                ELSE [writes[o] EXCEPT
                                        !.overlapped = @ \/ writes[o].pc # "idle"]]
                /\ UNCHANGED ret
    /\ UNCHANGED <<log_entries, log_entries_meta, meta_keys, Keys, namesById, maxID,
                   written, issued>>

\* the return of Write with (n, reterr) and the deferred function (lines
\* 209-215): the rows the transaction inserted are stored by its Commit
WFinish(w, n, reterr) ==
    LET me == writes[w]
        db == [log_entries |-> log_entries, log_entries_meta |-> log_entries_meta]
        tx == [log_entries |-> log_entries \o me.header,
               log_entries_meta |-> log_entries_meta \o me.rows]
        d == Deferred(db, [err |-> FALSE, tx |-> tx], me.fail)
    IN  /\ log_entries' = d.db.log_entries
        /\ log_entries_meta' = d.db.log_entries_meta
        /\ written' = IF d.db = db THEN written
                      ELSE Extend(written, me.header[1].id,
                                  [log |-> UnmarshalLog(me.p).log, err |-> reterr,
                                   saved |-> NamesSaved(UnmarshalLog(me.p).log),
                                   overlapped |-> me.overlapped])
        /\ ret' = [Result("Write", me.p, NilFilter, n, reterr, <<>>,
                          <<[op |-> "begin", err |-> FALSE]>> \o d.end)
                     EXCEPT !.id = IF d.db = db THEN 0 ELSE me.header[1].id]
        /\ writes' = [writes EXCEPT ![w] = NoWrite]
        /\ UNCHANGED <<meta_keys, Keys, namesById, maxID, issued>>

\* lines 217-227: the insert of the header row.  While another transaction
\* writes, the statement waits (the step is not taken) or the store refuses it.
WHeader(w) ==
    /\ writes[w].pc = "begun"
    /\ LET log == UnmarshalLog(writes[w].p).log
       IN  \/ /\ Busy(writes, w) \/ HeaderFails(log, writes[w].fail)
              /\ WFinish(w, 0, TRUE)
           \/ /\ ~Busy(writes, w) /\ ~HeaderFails(log, writes[w].fail)
              /\ writes' = [writes EXCEPT
                              ![w].pc = "loop",
                              ![w].header = <<HeaderRow(NextID(log_entries), log, Time(1, 0))>>]
              /\ UNCHANGED <<log_entries, log_entries_meta, meta_keys, Keys, namesById,
                             maxID, written, issued, ret>>

\* lines 230-275: one turn of the loop, the insert of one attribute row
WExec(w) ==
    /\ writes[w].pc = "loop"
    /\ Len(writes[w].rows) < Len(writes[w].order)
    /\ LET me == writes[w]
           i == Len(me.rows) + 1
           log == UnmarshalLog(me.p).log
       IN  IF me.fail.at = "exec" /\ me.fail.i = i
           THEN WFinish(w, 0, TRUE)
           ELSE /\ writes' = [writes EXCEPT
                                ![w].rows = Append(@, MetaRow(NextID(log_entries_meta) + i - 1,
                                                              me.header[1].id, Keys,
                                                              me.order[i], log[me.order[i]]))]
                /\ UNCHANGED <<log_entries, log_entries_meta, meta_keys, Keys, namesById,
                               maxID, written, issued, ret>>

\* line 277: return len(p), nil
WReturn(w) ==
    /\ writes[w].pc = "loop"
    /\ Len(writes[w].rows) = Len(writes[w].order)
    /\ WFinish(w, writes[w].p.len, FALSE)

\* Two goroutines that call Write on one LogWriter.
NextConcurrent ==
    \E w \in Writers :
        \/ WBegin(w, DateEvents,
                  {NoFailure, [at |-> "begin", i |-> 0], [at |-> "exec", i |-> 2]})
        \/ WHeader(w)
        \/ WExec(w)
        \/ WReturn(w)

SpecConcurrent == Init /\ [][NextConcurrent]_vars

\* Events read back from a table of attribute rows that holds foreign rows.
NextForeign ==
    \/ DoWrite(DateEvents, {Time(1, 0)}, {NoFailure})
    \/ DoGetEntriesForeign({NilFilter, WithLevel(NewGetEntriesFilter, "DEBUG")},
                           ForeignRowSeqs)
    \/ DoAdd(AddNames)
    \/ DoSaveSchema

SpecForeign == Init /\ [][NextForeign]_vars

\* Events read back under value filters of every kind.
NextFilters ==
    \/ DoWrite(DateEvents, {Time(1, 0)}, {NoFailure})
    \/ DoGetEntries(KindFilters)
    \/ DoAdd(AddNames)

SpecFilters == Init /\ [][NextFilters]_vars

\* Several writers, one after the other, on one database: each starts with a
\* new registry, and saves over the rows the earlier ones left.
NextStore ==
    \/ DoNewLogWriter
    \/ DoAdd(RegNames)
    \/ DoAddWithID(RegNames, RegIDs)
    \/ DoSaveSchema
    \/ DoInit

SpecStore == Init /\ [][NextStore]_vars

\* loadMetaKeys on every sequence of rows a table meta_keys may return.
NextLoad ==
    \/ DoLoadMetaKeys(RowSeqs)
    \/ DoGet(RegNames)
    \/ DoGetByID(RegIDs)

SpecLoad == Init /\ [][NextLoad]_vars

(***************************************************************************)
(* The claims.                                                             *)
(***************************************************************************)
\* the fields of an event other than level and session
AttrsOf(log) == [k \in MetaFields(log) |-> log[k]]

EntryIDs(entries) == {entries[i].ID : i \in DOMAIN entries}

\* the attribute rows of one header row
RowsOf(id) == {i \in DOMAIN log_entries_meta : log_entries_meta[i].log_entry_id = id}

Unfiltered(f) == f.nil \/ f = NewGetEntriesFilter

TimeLE(a, b) == a.day < b.day \/ (a.day = b.day /\ a.tod <= b.tod)

\* C1: Write is all-or-nothing: every header row in the store belongs to a
\* Write that returned no error and has one attribute row for each of that
\* event's fields other than level and session; a Write that failed left no row.
C1_WriteAllOrNothing ==
    \A i \in DOMAIN log_entries :
        LET id == log_entries[i].id
        IN  /\ id \in DOMAIN written
            /\ ~written[id].err
            /\ Cardinality(RowsOf(id)) = Cardinality(MetaFields(written[id].log))

\* C2: Write returns (len(p), nil) only when its transaction was committed: a
\* failure to open or to commit the transaction is returned.
C2_CommitFailureReturned ==
    (ret.op = "Write" /\ ~ret.err /\ ret.n = ret.p.len)
        => \E i \in DOMAIN ret.tx : ret.tx[i].op = "commit" /\ ~ret.tx[i].err

\* C3: a Write that opened a transaction made exactly one call of Commit or
\* Rollback on it, as its last call, whether it returned an error or not.
C3_TransactionEndedOnce ==
    (ret.op = "Write" /\ ret.tx # <<>>)
        => /\ ret.tx[1].op = "begin"
           /\ Cardinality({i \in DOMAIN ret.tx : ret.tx[i].op \in {"commit", "rollback"}}) = 1
           /\ ret.tx[Len(ret.tx)].op \in {"commit", "rollback"}

\* C3 witness: a Write returned an error after it had opened its transaction
C3_Witness ==
    /\ ret.op = "Write" /\ ret.err /\ ret.tx # <<>>
    /\ ret.p.json = "object" /\ "level" \in DOMAIN ret.p.fields

\* C4: a Write of a payload that is no JSON object returns an error and 0,
\* opens no transaction and changes neither the store nor the registry.
C4_NonObjectFailsBeforeTransaction ==
    [][(ret'.op = "Write" /\ ret'.p.json # "object")
          => /\ ret'.err /\ ret'.n = 0
             /\ ret'.tx = <<>>
             /\ UNCHANGED <<log_entries, log_entries_meta, meta_keys,
                            Keys, namesById, maxID>>]_vars

\* C5: an unfiltered GetEntries returns every event that Write accepted while
\* the names it interned were in meta_keys, with Meta equal to the written
\* fields other than level and session.
C5_AttributesReconstructed ==
    (ret.op = "GetEntries" /\ Unfiltered(ret.filter))
        => \A id \in DOMAIN written :
               (~written[id].err /\ written[id].saved)
                   => /\ ~ret.err
                      /\ \E i \in DOMAIN ret.entries :
                             /\ ret.entries[i].ID = id
                             /\ ret.entries[i].Meta = AttrsOf(written[id].log)

\* C6: the entries GetEntries returns are in strictly ascending order of ID,
\* which is the order in which their header rows were committed.
C6_SortedById ==
    (ret.op = "GetEntries" /\ ~ret.err)
        => \A i, j \in DOMAIN ret.entries :
               i < j => /\ ret.entries[i].ID < ret.entries[j].ID
                        /\ \E a, b \in DOMAIN log_entries :
                               /\ a < b
                               /\ log_entries[a].id = ret.entries[i].ID
                               /\ log_entries[b].id = ret.entries[j].ID

\* C6 witness: GetEntries returned two entries
C6_Witness == ret.op = "GetEntries" /\ ~ret.err /\ Len(ret.entries) >= 2

\* C7: GetEntries under a filter on level and session only (or none) returns
\* exactly the committed events with that level and that session.
C7_LevelSessionFilter ==
    (/\ ret.op = "GetEntries"
     /\ IsZero(ret.filter.From) /\ IsZero(ret.filter.To)
     /\ ret.filter.SelectedMetaKeys = <<>> /\ DOMAIN ret.filter.MetaFilters = {})
        => /\ ~ret.err
           /\ EntryIDs(ret.entries) =
                {log_entries[i].id : i \in
                    {j \in DOMAIN log_entries :
                        /\ ret.filter.nil \/ ret.filter.Level = ""
                              \/ log_entries[j].level = ret.filter.Level
                        /\ ret.filter.nil \/ ret.filter.Session = ""
                              \/ (log_entries[j].session.Valid
                                  /\ log_entries[j].session.String = ret.filter.Session)}}

\* C8: GetEntries under from and to returns exactly the events whose time t
\* has from <= t and t <= to.
C8_DateRangeInclusive ==
    (ret.op = "GetEntries" /\ ~ret.filter.nil)
        => /\ ~ret.err
           /\ EntryIDs(ret.entries) =
                {log_entries[i].id : i \in
                    {j \in DOMAIN log_entries :
                        /\ IsZero(ret.filter.From)
                              \/ TimeLE(ret.filter.From, ParseDriver(log_entries[j].date))
                        /\ IsZero(ret.filter.To)
                              \/ TimeLE(ParseDriver(log_entries[j].date), ret.filter.To)}}

\* whether the event written as log has every attribute of filters with its value
Possesses(log, filters) ==
    \A k \in DOMAIN filters : k \in MetaFields(log) /\ log[k] = filters[k]

\* C9: GetEntries under value filters succeeds and returns exactly the events
\* that have every filtered attribute with the filtered value.
C9_ValueFilters ==
    (/\ ret.op = "GetEntries" /\ ~ret.filter.nil
     /\ DOMAIN ret.filter.MetaFilters # {}
     /\ \A id \in DOMAIN written : ~written[id].err /\ written[id].saved)
        => /\ ~ret.err
           /\ EntryIDs(ret.entries) =
                {id \in DOMAIN written : Possesses(written[id].log, ret.filter.MetaFilters)}

\* C10: GetEntries under a value filter on a name no event was written with
\* returns no entry and no error.
C10_UnknownNameNoMatch ==
    (/\ ret.op = "GetEntries" /\ ~ret.filter.nil
     /\ \E k \in DOMAIN ret.filter.MetaFilters :
            \A id \in DOMAIN written : k \notin DOMAIN written[id].log)
        => ~ret.err /\ ret.entries = <<>>

\* the attributes of an event whose name is one of names
Selected(log, names) ==
    [k \in {x \in MetaFields(log) : \E i \in DOMAIN names : names[i] = x} |-> log[k]]

\* C11: GetEntries under selected names (and nothing else) succeeds, and the
\* Meta of every entry it returns holds exactly the attributes of the event
\* whose name is selected, whether the name is registered or not.
C11_SelectedNames ==
    (/\ ret.op = "GetEntries" /\ ~ret.filter.nil
     /\ ret.filter.SelectedMetaKeys # <<>>
     /\ DOMAIN ret.filter.MetaFilters = {})
        => /\ ~ret.err
           /\ \A i \in DOMAIN ret.entries :
                  /\ ret.entries[i].ID \in DOMAIN written
                  /\ ret.entries[i].Meta =
                        Selected(written[ret.entries[i].ID].log, ret.filter.SelectedMetaKeys)

\* whether a header row has the level and the session of the filter f
HeaderMatches(row, f) ==
    /\ f.nil \/ f.Level = "" \/ row.level = f.Level
    /\ f.nil \/ f.Session = "" \/ (row.session.Valid /\ row.session.String = f.Session)

\* C12: GetEntries under a filter on level and session (or none) returns every
\* matching event that has no attribute row, with an empty Meta.
C12_EventWithoutAttributes ==
    (/\ ret.op = "GetEntries"
     /\ IsZero(ret.filter.From) /\ IsZero(ret.filter.To)
     /\ ret.filter.SelectedMetaKeys = <<>> /\ DOMAIN ret.filter.MetaFilters = {})
        => \A j \in DOMAIN log_entries :
               (HeaderMatches(log_entries[j], ret.filter) /\ RowsOf(log_entries[j].id) = {})
                   => /\ ~ret.err
                      /\ \E i \in DOMAIN ret.entries :
                             /\ ret.entries[i].ID = log_entries[j].id
                             /\ DOMAIN ret.entries[i].Meta = {}

\* the registry in the result of Add, AddWithID or loadMetaKeys
RegistryOf(a) == [Keys |-> a.Keys, namesById |-> a.namesById, maxID |-> a.maxID]

\* the key (name, id) as Get, GetByID, Add and AddWithID return it
KeyOf(name, id) == [ok |-> TRUE, Name |-> name, ID |-> id]

\* C13: Add of a registered name returns the registered key and leaves Keys,
\* namesById and maxID as they were; Add always returns a key.
C13_AddRegisteredName ==
    [][/\ ret'.op = "Add" => (ret'.key.ok /\ ret'.key.Name = ret'.name /\ ~ret'.err)
       /\ (ret'.op = "Add" /\ ret'.name \in DOMAIN Keys)
             => /\ ret'.key = KeyOf(ret'.name, Keys[ret'.name])
                /\ UNCHANGED <<Keys, namesById, maxID>>]_vars

\* C13 witness: Add was called with a name it found registered
C13_Witness == ret.op = "Add" /\ ret.ok /\ ret.key.ok

\* C14: Add of a name that is not registered returns the key with ID maxID,
\* puts it in Keys and in namesById and adds one to maxID; on a new registry
\* the first two names get the IDs 0 and 1.
C14_AddNewName ==
    [][(ret'.op = "Add" /\ ret'.name \notin DOMAIN Keys)
          => /\ ret'.key = KeyOf(ret'.name, maxID)
             /\ Keys' = Extend(Keys, ret'.name, maxID)
             /\ namesById' = Extend(namesById, maxID, ret'.name)
             /\ maxID' = maxID + 1
             /\ TheRegistry = NewMetaKeys => ret'.key.ID = 0
             /\ (\E n \in RegNames : TheRegistry = RegistryOf(Add(NewMetaKeys, n)))
                   => ret'.key.ID = 1]_vars

\* C14 witness: Add gave the second name of a registry the ID 1
C14_Witness ==
    /\ ret.op = "Add" /\ ~ret.ok /\ ret.key.ID = 1
    /\ Cardinality(DOMAIN Keys) = 2 /\ 0 \in DOMAIN namesById

\* C15: AddWithID(name, id) when name is registered with that id returns the
\* key and no error and leaves Keys, namesById and maxID as they were.
C15_AddWithIDSamePair ==
    [][(ret'.op = "AddWithID" /\ ret'.name \in DOMAIN Keys /\ Keys[ret'.name] = ret'.id)
          => /\ ~ret'.err
             /\ ret'.key = KeyOf(ret'.name, ret'.id)
             /\ UNCHANGED <<Keys, namesById, maxID>>]_vars

\* C15 witness: AddWithID found the name registered and returned no error
C15_Witness == ret.op = "AddWithID" /\ ret.ok /\ ~ret.err

\* C16: AddWithID(name, id) returns an error when id is bound to another name
\* or name to another id, and then Keys, namesById and maxID are as they were,
\* so Get and GetByID still return the earlier binding.
C16_AddWithIDConflict ==
    [][(/\ ret'.op = "AddWithID"
        /\ \/ ret'.id \in DOMAIN namesById /\ namesById[ret'.id] # ret'.name
           \/ ret'.name \in DOMAIN Keys /\ Keys[ret'.name] # ret'.id)
          => /\ ret'.err
             /\ UNCHANGED <<Keys, namesById, maxID>>
             /\ \A n \in RegNames : Get(Keys', n) = Get(Keys, n)
             /\ \A i \in RegIDs : GetByID(Keys', namesById', i) = GetByID(Keys, namesById, i)]_vars

\* C16 witness: AddWithID returned an error for a name that was not registered,
\* its id being bound to another name
C16_Witness ==
    /\ ret.op = "AddWithID" /\ ret.err /\ ~ret.ok
    /\ ret.id \in DOMAIN namesById /\ namesById[ret.id] # ret.name

\* C17: after an AddWithID(name, id) that returned no error maxID is at least
\* id + 1, and an Add of an unregistered name that follows returns an ID
\* greater than id.
C17_MaxIDAboveExplicitID ==
    [][/\ (ret'.op = "AddWithID" /\ ~ret'.err) => maxID' >= ret'.id + 1
       /\ (/\ ret.op = "AddWithID" /\ ~ret.err
           /\ ret'.op = "Add" /\ ret'.name \notin DOMAIN Keys)
             => ret'.key.ID > ret.id]_vars

\* C17 witness: Add gave a new name the ID 3 after AddWithID had bound the ID 2
\* in a registry whose maxID was below 2
C17_Witness ==
    /\ ret.op = "Add" /\ ~ret.ok /\ ret.key.ID = 3
    /\ 2 \in DOMAIN namesById /\ Cardinality(DOMAIN Keys) = 2

\* C18: an ID is bound to the name it was first issued to, across Add,
\* AddWithID and the reloads of the registry by Init.
C18_IDNeverReissued ==
    \A id \in DOMAIN namesById : id \in DOMAIN issued /\ issued[id] = namesById[id]

\* Keys and namesById hold the same pairs, below maxID
RegistryConsistent ==
    /\ \A n \in DOMAIN Keys : Keys[n] \in DOMAIN namesById /\ namesById[Keys[n]] = n
    /\ \A i \in DOMAIN namesById : namesById[i] \in DOMAIN Keys /\ Keys[namesById[i]] = i
    /\ \A i \in DOMAIN namesById : i < maxID
    /\ \A n \in RegNames, i \in 0..(MaxKeyID + 1) :
           GetByID(Keys, namesById, i) = KeyOf(n, i) <=> Get(Keys, n) = KeyOf(n, i)

\* C19: Keys and namesById always hold the same pairs, one per name and one per
\* ID, every ID is below maxID, and Get and GetByID change nothing.
C19_IndexesAgree ==
    [][/\ RegistryConsistent'
       /\ ret'.op \in {"Get", "GetByID"} => UNCHANGED <<Keys, namesById, maxID>>]_vars

\* C19 witness: GetByID found a key in a registry of two names with a gap
\* between their IDs
C19_Witness ==
    /\ ret.op = "GetByID" /\ ret.key.ok
    /\ DOMAIN namesById = {0, 2}

C21_SaveUpserts ==
    [][/\ ret'.op = "saveSchema"
             => /\ ~ret'.err
                /\ \A n \in DOMAIN Keys : [id |-> Keys[n], key |-> n] \in meta_keys'
                /\ \A mk \in meta_keys' : mk.id \in DOMAIN namesById => mk.key = namesById[mk.id]
       /\ (ret.op = "saveSchema" /\ ret'.op = "saveSchema") => meta_keys' = meta_keys]_vars

\* C21 witness: saveSchema replaced a row of meta_keys that had the id of a
\* key under another name
C21_Witness ==
    /\ ret.op = "saveSchema" /\ ret.n > 0
    /\ \E id \in DOMAIN namesById :
           /\ [id |-> id, key |-> namesById[id]] \in meta_keys
           /\ id \in DOMAIN issued /\ issued[id] # namesById[id]

\* whether two of the rows have one id with two names or one name with two ids
Inconsistent(rows) ==
    \E i, j \in DOMAIN rows :
        \/ rows[i].id = rows[j].id /\ rows[i].key # rows[j].key
        \/ rows[i].key = rows[j].key /\ rows[i].id # rows[j].id

\* C22: loadMetaKeys returns an error whenever the rows it reads bind one id
\* to two names or one name to two ids.
C22_LoadRejectsConflicts ==
    (ret.op = "loadMetaKeys" /\ Inconsistent(ret.rows)) => ret.err

\* C22 witness: loadMetaKeys returned an error on rows that hold one name
\* under two ids
C22_Witness ==
    /\ ret.op = "loadMetaKeys" /\ ret.err
    /\ \E i, j \in DOMAIN ret.rows :
           ret.rows[i].key = ret.rows[j].key /\ ret.rows[i].id # ret.rows[j].id

\* the attribute rows a step added to log_entries_meta
NewRows ==
    {log_entries_meta'[i] : i \in (Len(log_entries_meta) + 1)..Len(log_entries_meta')}

\* the field an attribute row was written for, byId being namesById at the
\* time of the Write
FieldOf(row, byId) ==
    IF row.name.Valid THEN row.name.String
    ELSE IF row.meta_key_id.Valid /\ row.meta_key_id.Int \in DOMAIN byId
    THEN byId[row.meta_key_id.Int]
    ELSE ""

\* C23: every attribute row a Write adds has either name or meta_key_id set,
\* never both and never none: meta_key_id when the field's name is in the
\* registry at that time, name otherwise.
C23_NameOrKeyID ==
    [][ret'.op = "Write"
          => \A row \in NewRows :
                /\ row.name.Valid # row.meta_key_id.Valid
                /\ row.name.Valid
                      => row.name.String \in MetaFields(UnmarshalLog(ret'.p).log) \ DOMAIN Keys
                /\ row.meta_key_id.Valid
                      => /\ row.meta_key_id.Int \in DOMAIN namesById
                         /\ namesById[row.meta_key_id.Int]
                                \in MetaFields(UnmarshalLog(ret'.p).log)]_vars

\* C23 witness: one Write stored a row with a name and a row with a meta_key_id
C23_Witness ==
    /\ ret.op = "Write"
    /\ \E i, j \in DOMAIN log_entries_meta :
           /\ log_entries_meta[i].log_entry_id = log_entries_meta[j].log_entry_id
           /\ log_entries_meta[i].name.Valid /\ ~log_entries_meta[i].meta_key_id.Valid
           /\ log_entries_meta[j].meta_key_id.Valid /\ ~log_entries_meta[j].name.Valid

\* C24: every attribute row in the store has exactly one value column set, the
\* one of its type: real_value for Real, text_value for Text, blob_value for
\* Blob and JSON; Value returns no error on it.
C24_OneValueColumn ==
    \A i \in DOMAIN log_entries_meta :
        LET row == log_entries_meta[i]
        IN  /\ ~row.int_value.Valid
            /\ row.real_value.Valid <=> row.type = LogEntryTypeReal
            /\ row.text_value.Valid <=> row.type = LogEntryTypeText
            /\ row.blob_value.Valid <=> row.type \in {LogEntryTypeBlob, LogEntryTypeJSON}
            /\ row.type \in {LogEntryTypeReal, LogEntryTypeText, LogEntryTypeBlob,
                              LogEntryTypeJSON}
            /\ ~Value(row).err

\* C24 witness: the store holds a Real row, a Text row and a JSON row
C24_Witness ==
    \E i, j \in DOMAIN log_entries_meta :
        /\ log_entries_meta[i].type = LogEntryTypeReal
        /\ log_entries_meta[j].type = LogEntryTypeJSON
        /\ ret.op = "GetEntries"

\* C25: a Write, whether it returns an error or not, leaves Keys, namesById,
\* maxID and the table meta_keys as they were.
C25_WriteNeverInterns ==
    [][ret'.op = "Write" => UNCHANGED <<Keys, namesById, maxID, meta_keys>>]_vars

\* C25 witness: a Write stored a row for a name the registry does not hold
C25_Witness ==
    /\ ret.op = "Write" /\ ~ret.err
    /\ \E i \in DOMAIN log_entries_meta :
           /\ log_entries_meta[i].name.Valid
           /\ log_entries_meta[i].name.String \notin DOMAIN Keys
           /\ log_entries_meta[i].log_entry_id = Len(log_entries)

\* C26: a Write that returns no error added one header row and, for it, one
\* attribute row for each field other than level and session, and no other.
C26_OneRowPerField ==
    [][(ret'.op = "Write" /\ ~ret'.err)
          => /\ Len(log_entries') = Len(log_entries) + 1
             /\ Len(log_entries_meta') - Len(log_entries_meta)
                   = Cardinality(MetaFields(UnmarshalLog(ret'.p).log))
             /\ {FieldOf(row, namesById) : row \in NewRows}
                   = MetaFields(UnmarshalLog(ret'.p).log)
             /\ \A row \in NewRows :
                    row.log_entry_id = log_entries'[Len(log_entries')].id]_vars

\* C27: an event written without a session is stored with a NULL session, and
\* an unfiltered GetEntries returns it, with an empty Session, and no error.
C27_NullSessionReturned ==
    /\ \A id \in DOMAIN written :
           "session" \notin DOMAIN written[id].log
               => \E j \in DOMAIN log_entries :
                      log_entries[j].id = id /\ ~log_entries[j].session.Valid
    /\ (ret.op = "GetEntries" /\ Unfiltered(ret.filter))
           => \A j \in DOMAIN log_entries :
                  ~log_entries[j].session.Valid
                      => /\ ~ret.err
                         /\ \E i \in DOMAIN ret.entries :
                                /\ ret.entries[i].ID = log_entries[j].id
                                /\ ret.entries[i].Session = ""

\* C28: a Write of a mapping without a level returns an error and 0 and leaves
\* log_entries and log_entries_meta as they were.
C28_NoLevelRejected ==
    [][(/\ ret'.op = "Write"
        /\ ~UnmarshalLog(ret'.p).err
        /\ "level" \notin DOMAIN UnmarshalLog(ret'.p).log)
          => /\ ret'.err /\ ret'.n = 0
             /\ UNCHANGED <<log_entries, log_entries_meta>>]_vars

\* C28 witness: a Write of an object with an attribute and no level returned an
\* error after it had opened its transaction
C28_Witness ==
    /\ ret.op = "Write" /\ ret.err /\ ret.tx # <<>>
    /\ ret.p.json = "object"
    /\ "level" \notin DOMAIN ret.p.fields /\ "baz" \in DOMAIN ret.p.fields

\* values of every Go type ToLogEntryType tells apart
ClassifyInputs ==
    {GoNumber(k, 420) : k \in NumericKinds}
        \cup {GoFloat(15), GoString("bar"), GoBytes("raw"), GoBool(TRUE), GoBool(FALSE),
              GoNil, GoMap(NoMembers), Nested, GoSlice}

\* C29: ToLogEntryType gives every value one type: Real for every number, Text
\* for a string, Blob for bytes, JSON for everything else; and the type Write
\* stores in a row is ToLogEntryType of the field's value.
C29_Classification ==
    [][/\ \A v \in ClassifyInputs :
              ToLogEntryType(v) =
                  CASE v.kind \in NumericKinds -> LogEntryTypeReal
                    [] v.kind = "string" -> LogEntryTypeText
                    [] v.kind = "bytes" -> LogEntryTypeBlob
                    [] v.kind \in {"map", "slice", "bool", "nil"} -> LogEntryTypeJSON
       /\ ret'.op = "Write"
             => \A row \in NewRows :
                    row.type = ToLogEntryType(
                                   UnmarshalLog(ret'.p).log[FieldOf(row, namesById)])]_vars

\* C29 witness: a Write stored a JSON row for a field whose value is null
C29_Witness ==
    /\ ret.op = "Write" /\ ~ret.err
    /\ "baz" \in DOMAIN ret.p.fields /\ ret.p.fields["baz"] = GoNil
    /\ \E i \in DOMAIN log_entries_meta :
           /\ log_entries_meta[i].log_entry_id = Len(log_entries)
           /\ log_entries_meta[i].type = LogEntryTypeJSON

\* C30: Value of the row Write builds for a value returns that value: a number
\* keeps its fraction, a string and bytes are unchanged, an object comes back
\* with the same members.
C30_ValueRoundTrip ==
    [][/\ Value(MetaRow(1, 1, Keys, "baz", GoBytes("raw")))
             = [err |-> FALSE, v |-> GoBytes("raw")]
       /\ ret'.op = "Write"
             => \A row \in NewRows :
                    Value(row) = [err |-> FALSE,
                                  v |-> UnmarshalLog(ret'.p).log[FieldOf(row, namesById)]]]_vars

\* C30 witness: a Write stored the number 1.5
C30_Witness ==
    /\ ret.op = "Write" /\ ~ret.err
    /\ "baz" \in DOMAIN ret.p.fields /\ ret.p.fields["baz"] = GoFloat(15)
    /\ \E i \in DOMAIN log_entries_meta :
           /\ log_entries_meta[i].log_entry_id = Len(log_entries)
           /\ log_entries_meta[i].real_value = NullFloat64(15, TRUE)

\* whether the value column of an attribute row for its type is NULL, or its
\* type is none of the four
BadValue(row) ==
    CASE row.type = LogEntryTypeReal -> ~row.real_value.Valid
      [] row.type = LogEntryTypeText -> ~row.text_value.Valid
      [] row.type \in {LogEntryTypeBlob, LogEntryTypeJSON} -> ~row.blob_value.Valid
      [] OTHER -> TRUE

\* the header rows the first query of GetEntries under the filter f matches
Matched(f) ==
    {log_entries[j].id : j \in {j \in DOMAIN log_entries : HeaderMatches(log_entries[j], f)}}

\* C31: when an attribute row of a matched event has a NULL value column for
\* its type, or a type that is none of the four, GetEntries returns an error
\* and no entry; it never returns entries with that attribute left out.
C31_BadValueFailsQuery ==
    (/\ ret.op = "GetEntries"
     /\ \E i \in DOMAIN ret.rows :
            BadValue(ret.rows[i]) /\ ret.rows[i].log_entry_id \in Matched(ret.filter))
        => ret.err /\ ret.entries = <<>>

\* C31 witness: GetEntries under a filter on level failed on a matched event
\* that has a text row whose text_value is NULL
C31_Witness ==
    /\ ret.op = "GetEntries" /\ ret.err /\ ~ret.filter.nil /\ ret.filter.Level = "DEBUG"
    /\ \E i \in DOMAIN ret.rows :
           /\ ret.rows[i].type = LogEntryTypeText /\ ~ret.rows[i].text_value.Valid
           /\ ret.rows[i].log_entry_id \in Matched(ret.filter)

\* whether no name resolves for the attribute row: its name is NULL and
\* meta_keys has no row for its meta_key_id
Unresolvable(row) ==
    ~row.name.Valid /\ ~\E mk \in meta_keys : row.meta_key_id.Valid /\ mk.id = row.meta_key_id.Int

\* the attributes of the header row id that the rows with a name to resolve
\* and a value other than nil give
ResolvableAttrs(id) ==
    LET mine == {i \in RowsOf(id) : /\ ~Unresolvable(log_entries_meta[i])
                                    /\ Value(log_entries_meta[i]).v # GoNil}
        nameOf(i) == IF log_entries_meta[i].name.Valid
                     THEN log_entries_meta[i].name.String
                     ELSE (CHOOSE mk \in meta_keys :
                              mk.id = log_entries_meta[i].meta_key_id.Int).key
    IN  [k \in {nameOf(i) : i \in mine} |->
            Value(log_entries_meta[CHOOSE i \in mine : nameOf(i) = k]).v]

\* C32: an unfiltered GetEntries on a store that holds an attribute row no
\* name resolves for returns no error and every event, each with the
\* attributes of its other rows and without that row.
C32_UnresolvedRowDropped ==
    (/\ ret.op = "GetEntries" /\ Unfiltered(ret.filter)
     /\ \E i \in DOMAIN log_entries_meta : Unresolvable(log_entries_meta[i]))
        => /\ ~ret.err
           /\ \A j \in DOMAIN log_entries :
                  \E i \in DOMAIN ret.entries :
                      /\ ret.entries[i].ID = log_entries[j].id
                      /\ ret.entries[i].Meta = ResolvableAttrs(log_entries[j].id)

\* C33: GetEntries, whether it returns an error or not and whatever the
\* filter, leaves log_entries, log_entries_meta, meta_keys and the registry of
\* the writer as they were.
C33_QueryReadOnly ==
    [][ret'.op = "GetEntries"
          => UNCHANGED <<log_entries, log_entries_meta, meta_keys, Keys, namesById, maxID>>]_vars

\* C33 witness: GetEntries under a value filter failed on a store that holds
\* events, attribute rows, a saved registry and a registered name
C33_Witness ==
    /\ ret.op = "GetEntries" /\ ret.err
    /\ ~ret.filter.nil /\ DOMAIN ret.filter.MetaFilters # {}
    /\ log_entries # <<>> /\ log_entries_meta # <<>>
    /\ meta_keys # {} /\ DOMAIN Keys # {}

\* the value column Write sets in the row of a value of the type t
StoredColumn(t) ==
    LET v == CHOOSE v \in {GoFloat(420), GoString("bar"), GoBytes("raw"), Nested} :
                 MetaRow(1, 1, NewMetaKeys.Keys, "foo", v).type = t
        row == MetaRow(1, 1, NewMetaKeys.Keys, "foo", v)
    IN  CHOOSE col \in {"real_value", "text_value", "blob_value"} : row[col].Valid

\* the conditions of Apply on a value column
ValueConds(gef, keys) ==
    LET conds == Apply(gef, keys)
    IN  {conds[i] : i \in {i \in DOMAIN conds :
                              conds[i].col \notin {"level", "session", "date",
                                                   "mk.name", "mk.meta_key_id"}}}

\* C34: the condition a value filter adds compares the column in which Write
\* stores a value of the type of the expected value (real_value, text_value,
\* blob_value for Blob and for JSON), which is a column of log_entries_meta.
C34_FilterColumnIsStorageColumn ==
    (ret.op = "GetEntries" /\ ~ret.filter.nil)
        => \A c \in ValueConds(ret.filter, Keys) :
               /\ c.col = "lem." \o StoredColumn(ToLogEntryType(c.arg))
               /\ \E col \in MetaColumns : c.col = "lem." \o col

\* whether the event of the header row id was written with the field k while
\* k was registered: its row has a meta_key_id and no name
InternedAtWrite(id, k) ==
    /\ k \in MetaFields(written[id].log)
    /\ ~\E i \in RowsOf(id) : log_entries_meta[i].name = NullString(k, TRUE)

\* C35: an unfiltered GetEntries that returns no error returns every attribute
\* (other than null) that was written while its name was registered, under
\* that name, whether saveSchema ran before it or not.
C35_InternedNameReturned ==
    (ret.op = "GetEntries" /\ Unfiltered(ret.filter) /\ ~ret.err)
        => \A i \in DOMAIN ret.entries :
               LET id == ret.entries[i].ID
               IN  (id \in DOMAIN written /\ ~written[id].err)
                       => \A k \in MetaFields(written[id].log) :
                              (InternedAtWrite(id, k) /\ written[id].log[k] # GoNil)
                                  => /\ k \in DOMAIN ret.entries[i].Meta
                                     /\ ret.entries[i].Meta[k] = written[id].log[k]

\* C36: in an unfiltered GetEntries that returns no error, the Meta of an
\* event whose rows all resolve to a name has one key for each field of the
\* event other than level and session, a field whose value is null included.
C36_EveryFieldIsAKey ==
    (ret.op = "GetEntries" /\ Unfiltered(ret.filter) /\ ~ret.err)
        => \A i \in DOMAIN ret.entries :
               LET id == ret.entries[i].ID
               IN  (/\ id \in DOMAIN written /\ ~written[id].err
                    /\ \A r \in RowsOf(id) : ~Unresolvable(log_entries_meta[r]))
                       => /\ DOMAIN ret.entries[i].Meta = MetaFields(written[id].log)
                          /\ Cardinality(DOMAIN ret.entries[i].Meta)
                                = Cardinality(MetaFields(written[id].log))

\* C37: every row of log_entries_meta has the id of a row of log_entries in
\* its log_entry_id, after a Write that returned an error too.
C37_NoOrphanRows ==
    \A i \in DOMAIN log_entries_meta :
        \E j \in DOMAIN log_entries : log_entries[j].id = log_entries_meta[i].log_entry_id

\* C37 witness: a Write returned an error after it stored the header row and
\* an attribute row of the event
C37_Witness ==
    /\ ret.op = "Write" /\ ret.err
    /\ log_entries # <<>>
    /\ RowsOf(log_entries[Len(log_entries)].id) # {}
    /\ log_entries[Len(log_entries)].id \in DOMAIN written
    /\ written[log_entries[Len(log_entries)].id].err

\* the header rows a call of Write that overlapped another call stored
Overlapped == {id \in DOMAIN written : written[id].overlapped}

C39_SavesKeepRegistryUnique ==
    /\ \A a, b \in meta_keys : (a.id = b.id \/ a.key = b.key) => a = b
    /\ ret.op = "Init" => ~ret.err
    /\ ret.op = "saveSchema"
          => /\ ~ret.err
             /\ \A k \in DOMAIN Keys : [id |-> Keys[k], key |-> k] \in meta_keys
             /\ \A i \in DOMAIN ret.rows :
                    /\ ret.rows[i] \notin meta_keys
                    /\ \E k \in DOMAIN Keys : Keys[k] = ret.rows[i].id \/ k = ret.rows[i].key

\* C39 witness: a saveSchema of a second writer replaced a row that had the
\* key of one of its pairs under another id, and a row that had the id of one
\* of its pairs under another key
C39_Witness ==
    /\ ret.op = "saveSchema"
    /\ \E i \in DOMAIN ret.rows :
           \E mk \in meta_keys : mk.key = ret.rows[i].key /\ mk.id # ret.rows[i].id
    /\ \E i \in DOMAIN ret.rows :
           \E mk \in meta_keys : mk.id = ret.rows[i].id /\ mk.key # ret.rows[i].key

====
